---- MODULE Spec2Model ----
\* A model of the quetz package server's request handlers (src/quetz/main.py).
\* The handlers are translated step by step; the collaborators that main.py
\* imports (quetz.dao, quetz.authorization, quetz.auth_github) are modelled
\* from their specified contracts.
EXTENDS Integers, Sequences, FiniteSets, TLC

\* ------------------------------------------------------------------ bounds

\* API keys the store may hold
MaxKeys == 1
\* membership rows added through the member endpoints
MaxMembers == 5
\* files in one upload request
MaxFiles == 3

\* --------------------------------------------------------------- constants

HTTP_200_OK == 200
HTTP_307_TEMPORARY_REDIRECT == 307
HTTP_201_CREATED == 201
HTTP_400_BAD_REQUEST == 400
HTTP_401_UNAUTHORIZED == 401
HTTP_403_FORBIDDEN == 403
HTTP_404_NOT_FOUND == 404
HTTP_409_CONFLICT == 409
HTTP_500_INTERNAL_SERVER_ERROR == 500

None == "None"

MEMBER == "member"
MAINTAINER == "maintainer"
OWNER == "owner"
Roles == {MEMBER, MAINTAINER, OWNER}

\* the User table: username -> binary id (users are never deleted)
UserTable == [alice |-> "A", bob |-> "B"]
Usernames == DOMAIN UserTable
UserIds == {UserTable[n] : n \in Usernames}
\* usernames a client may send (one of them unknown)
UsernameInputs == Usernames \cup {"carol"}

ChannelNames == {"c1", "c2"}
PackageNames == {<<"a">>, <<"b">>}
Keys == {"k1", "k2"}
Tokens == {"t1", "t2"}

SessionKeys == {"user_id", "identity_provider", "token"}

\* the request slots: requests that may be in flight at the same time
Req == {"r1", "r2"}

VARIABLES
    session,     \* the browser session (signed cookie): a dict over SessionKeys
    github,      \* the identity provider's answer for each token
    channels,    \* Channel rows: name -> number of rows
    packages,    \* Package rows: <<channel, name>> -> number of rows
    cmembers,    \* ChannelMember rows
    pmembers,    \* PackageMember rows
    apikeys,     \* ApiKey rows with their CPRole tuples
    versions,    \* PackageVersion rows, in insertion order
    files,       \* storage: path -> archive bytes (or a partial write)
    pc,          \* each in-flight request's position in its handler
    req,         \* each in-flight request's inputs and locals
    resp,        \* each request's response status (0 while in flight)
    last         \* the last completed single-step request and its response

vars == <<session, github, channels, packages, cmembers, pmembers, apikeys,
          versions, files, pc, req, resp, last>>

db == <<channels, packages, cmembers, pmembers, apikeys, versions>>
persisted == <<db, files>>

\* ------------------------------------------------------ session (main.py)

\* dict.pop(key, None)
pop(d, k) == [x \in (DOMAIN d) \ {k} |-> d[x]]

\* dict.get(key)
get(d, k) == IF k \in DOMAIN d THEN d[k] ELSE None

\* d[k] = v
set(d, k, v) == [x \in (DOMAIN d) \cup {k} |-> IF x = k THEN v ELSE d[x]]

\* str(uuid.UUID(bytes=id)) and its inverse uuid.UUID(s).bytes
UuidStr(id) == <<"uuid", id>>
UuidBytes(s) == s[2]

logout_keeps_user(s) == pop(pop(s, "identity_provider"), "token")

logout(s) == pop(pop(pop(s, "user_id"), "identity_provider"), "token")

\* ------------------------------------------------ Data Access Layer (dao)

NoPackage == <<>>

get_user_by_username(username) ==
    IF username \in Usernames THEN UserTable[username] ELSE None

get_profile(user_id) == <<"profile", user_id>>

get_channel(name) == channels[name] > 0

get_package(c, p) == packages[<<c, p>>] > 0

get_channel_member(c, username) ==
    \E m \in cmembers : m[1] = c /\ m[2] = get_user_by_username(username)

get_package_member(c, p, username) ==
    \E m \in pmembers :
        m[1] = c /\ m[2] = p /\ m[3] = get_user_by_username(username)

\* check-existence-then-insert in one transaction; a duplicate is a CONFLICT
create_channel(name, user_id, role) ==
    IF channels[name] > 0
    THEN [status |-> HTTP_409_CONFLICT, channels |-> channels,
          cmembers |-> cmembers]
    ELSE [status |-> HTTP_201_CREATED,
          channels |-> [channels EXCEPT ![name] = @ + 1],
          cmembers |-> cmembers \cup {<<name, user_id, role>>}]

create_package(c, p, user_id, role) ==
    IF packages[<<c, p>>] > 0
    THEN [status |-> HTTP_409_CONFLICT, packages |-> packages,
          pmembers |-> pmembers]
    ELSE [status |-> HTTP_201_CREATED,
          packages |-> [packages EXCEPT ![<<c, p>>] = @ + 1],
          pmembers |-> pmembers \cup {<<c, p, user_id, role>>}]

create_channel_member(c, username, role) ==
    cmembers \cup {<<c, get_user_by_username(username), role>>}

create_package_member(c, p, username, role) ==
    pmembers \cup {<<c, p, get_user_by_username(username), role>>}

create_api_key(user_id, roles, key) ==
    apikeys \cup {[key |-> key, user_id |-> user_id, roles |-> roles]}

VersionKey(v) ==
    <<v.channel, v.package, v.platform, v.version, v.build_number,
      v.build_string>>

\* check-existence-then-insert in one transaction; a duplicate is a CONFLICT
create_version(row) ==
    IF \E i \in DOMAIN versions : VersionKey(versions[i]) = VersionKey(row)
    THEN [status |-> HTTP_409_CONFLICT, versions |-> versions]
    ELSE [status |-> HTTP_201_CREATED, versions |-> Append(versions, row)]

\* ------------------------------------- Authorization Engine (authorization)

Rank(role) ==
    CASE role = MEMBER -> 1
      [] role = MAINTAINER -> 2
      [] role = OWNER -> 3
      [] OTHER -> 0

Max(S) == IF S = {} THEN 0 ELSE CHOOSE x \in S : \A y \in S : y <= x

Min2(a, b) == IF a <= b THEN a ELSE b

\* the user's own role at channel scope, or at package scope with the
\* channel-scope role inherited (p = NoPackage means channel scope)
UserRole(user_id, c, p) ==
    Max({Rank(m[3]) : m \in {x \in cmembers : x[1] = c /\ x[2] = user_id}}
        \cup
        {Rank(m[4]) : m \in {x \in pmembers :
            p # NoPackage /\ x[1] = c /\ x[2] = p /\ x[3] = user_id}})

\* the ceiling an API key's CPRole tuples set at a scope
KeyCeiling(k, c, p) ==
    Max({Rank(t[3]) : t \in {x \in k.roles :
            x[1] = c /\ (x[2] = NoPackage \/ (p # NoPackage /\ x[2] = p))}})

KeyRows(api_key) == {k \in apikeys : k.key = api_key /\ k.roles # {}}

\* the principal: the API key's owner when a key header is sent, else the
\* session's user; None when anonymous
get_user(api_key, sess) ==
    IF api_key # None
    THEN IF KeyRows(api_key) # {}
         THEN (CHOOSE k \in KeyRows(api_key) : TRUE).user_id
         ELSE None
    ELSE IF "user_id" \in DOMAIN sess THEN UuidBytes(sess["user_id"])
         ELSE None

EffectiveRole(api_key, sess, c, p) ==
    LET u == get_user(api_key, sess) IN
    IF u = None THEN 0
    ELSE IF api_key # None
         THEN Min2(UserRole(u, c, p),
                   Max({KeyCeiling(k, c, p) : k \in KeyRows(api_key)}))
         ELSE UserRole(u, c, p)

\* every assert returns 0 (allowed) or the status it fails with
assert_user(api_key, sess) ==
    IF get_user(api_key, sess) = None THEN HTTP_401_UNAUTHORIZED ELSE 0

RequireRole(api_key, sess, c, p, rank) ==
    IF get_user(api_key, sess) = None THEN HTTP_401_UNAUTHORIZED
    ELSE IF EffectiveRole(api_key, sess, c, p) >= rank THEN 0
    ELSE HTTP_403_FORBIDDEN

assert_add_channel_member(api_key, sess, c, role) ==
    RequireRole(api_key, sess, c, NoPackage, Rank(role))

assert_add_package_member(api_key, sess, c, p, role) ==
    RequireRole(api_key, sess, c, p, Rank(role))

assert_upload_file(api_key, sess, c, p) ==
    RequireRole(api_key, sess, c, p, Rank(MAINTAINER))

assert_create_api_key_roles(api_key, sess, roles) ==
    IF get_user(api_key, sess) = None THEN HTTP_401_UNAUTHORIZED
    ELSE IF \A t \in roles :
                EffectiveRole(api_key, sess, t[1], t[2]) >= Rank(t[3])
         THEN 0
         ELSE HTTP_403_FORBIDDEN

\* ----------------------------------- identity provider (quetz.auth_github)

\* the revocation check: valid only when the provider confirms the token;
\* a provider that cannot be reached counts as not valid (fail closed)
validate_token(token) ==
    token \in Tokens /\ github[token] = "valid"

\* what a single-step request was sent and what it was answered; turn
\* alternates, so that two equal requests in a row are two responses
Response(op, username, api_key, status, body) ==
    [op |-> op, username |-> username, channel |-> None,
     package |-> NoPackage, role |-> None, api_key |-> api_key,
     sess |-> session, status |-> status, body |-> body,
     turn |-> 1 - last.turn]

NoResponse ==
    [op |-> "none", username |-> None, channel |-> None,
     package |-> NoPackage, role |-> None, api_key |-> None,
     sess |-> <<>>, status |-> 0, body |-> <<>>, turn |-> 0]

ProviderAnswers == {"valid", "revoked", "unreachable"}

\* the provider revokes or restores a token, or becomes unreachable
provider_event(t, answer) ==
    /\ github[t] # answer
    /\ github' = [github EXCEPT ![t] = answer]
    /\ UNCHANGED <<session, channels, packages, cmembers, pmembers, apikeys,
                   versions, files, pc, req, resp, last>>

\* the provider login callback: binds the session to the user with the
\* provider's name and token
github_login(username, token) ==
    /\ username \in Usernames
    /\ session' = set(set(set(logout(session),
                              "user_id", UuidStr(UserTable[username])),
                          "identity_provider", "github"),
                      "token", token)
    /\ last' = Response("github_login", username, None, HTTP_307_TEMPORARY_REDIRECT,
                         <<>>)
    /\ UNCHANGED <<github, channels, packages, cmembers, pmembers, apikeys,
                   versions, files, pc, req, resp>>

\* ------------------------------------------- session endpoints (main.py)

check_token_revocation_no_logout(sess) ==
    LET identity_provider == get(sess, "identity_provider") IN
    IF identity_provider # None /\ identity_provider = "github"
       /\ ~validate_token(get(sess, "token"))
    THEN [session |-> sess, status |-> HTTP_401_UNAUTHORIZED]
    ELSE [session |-> sess, status |-> 0]

check_token_revocation_skipped(sess) == [session |-> sess, status |-> 0]

\* returns the session as the check leaves it and 0, or the status raised
check_token_revocation(sess) ==
    LET identity_provider == get(sess, "identity_provider") IN
    IF identity_provider # None /\ identity_provider = "github"
       /\ ~validate_token(get(sess, "token"))
    THEN [session |-> logout(sess), status |-> HTTP_401_UNAUTHORIZED]
    ELSE [session |-> sess, status |-> 0]

route_logout ==
    /\ session' = logout(session)
    /\ last' = Response("logout", None, None, HTTP_307_TEMPORARY_REDIRECT,
                         <<>>)
    /\ UNCHANGED <<github, channels, packages, cmembers, pmembers, apikeys,
                   versions, files, pc, req, resp>>

dummy_login_merges(username) ==
    LET user == get_user_by_username(username) IN
    /\ IF user = None
       THEN /\ session' = session
            /\ last' = Response("dummy_login", username, None,
                                HTTP_500_INTERNAL_SERVER_ERROR, <<>>)
       ELSE /\ session' = set(set(session, "user_id", UuidStr(user)),
                              "identity_provider", "dummy")
            /\ last' = Response("dummy_login", username, None,
                                HTTP_307_TEMPORARY_REDIRECT, <<>>)
    /\ UNCHANGED <<github, channels, packages, cmembers, pmembers, apikeys,
                   versions, files, pc, req, resp>>

\* an unknown username makes user.id fail after logout(session) ran; the
\* error response leaves the cookie as it was, so the session is unchanged
dummy_login(username) ==
    LET user == get_user_by_username(username) IN
    /\ IF user = None
       THEN /\ session' = session
            /\ last' = Response("dummy_login", username, None, HTTP_500_INTERNAL_SERVER_ERROR,
                         <<>>)
       ELSE /\ session' = set(set(logout(session), "user_id", UuidStr(user)),
                              "identity_provider", "dummy")
            /\ last' = Response("dummy_login", username, None, HTTP_307_TEMPORARY_REDIRECT,
                         <<>>)
    /\ UNCHANGED <<github, channels, packages, cmembers, pmembers, apikeys,
                   versions, files, pc, req, resp>>

me(api_key) ==
    LET checked == check_token_revocation(session)
        denied == assert_user(api_key, session)
    IN
    /\ session' = checked.session
    /\ last' = IF checked.status # 0
               THEN Response("me", None, api_key, checked.status,
                         <<>>)
               ELSE IF denied # 0
               THEN Response("me", None, api_key, denied,
                         <<>>)
               ELSE Response("me", None, api_key, HTTP_200_OK,
                         get_profile(get_user(api_key, session)))
    /\ UNCHANGED <<github, channels, packages, cmembers, pmembers, apikeys,
                   versions, files, pc, req, resp>>

\* ------------------------------------ channel and package endpoints (main.py)

NoRequest ==
    [op |-> "none", api_key |-> None, sess |-> <<>>, channel |-> None,
     package |-> NoPackage, files |-> <<>>, i |-> 0, indexed |-> 0]

\* the request in slot r ends with the given status
Finish(r, status) ==
    /\ pc' = [pc EXCEPT ![r] = "idle"]
    /\ resp' = [resp EXCEPT ![r] = status]

\* lines 192-199: assert_user and the existence lookup
post_channel_begin(r, name, api_key) ==
    /\ pc[r] = "idle"
    /\ req' = [req EXCEPT ![r] = [NoRequest EXCEPT !.op = "post_channel",
                   !.api_key = api_key, !.sess = session, !.channel = name]]
    /\ IF assert_user(api_key, session) # 0
       THEN Finish(r, assert_user(api_key, session))
       ELSE IF get_channel(name)
       THEN Finish(r, HTTP_409_CONFLICT)
       ELSE /\ pc' = [pc EXCEPT ![r] = "create_channel"]
            /\ resp' = [resp EXCEPT ![r] = 0]
    /\ UNCHANGED <<session, github, channels, packages, cmembers, pmembers,
                   apikeys, versions, files, last>>

post_channel_create_ignores_conflict(r) ==
    /\ pc[r] = "create_channel"
    /\ LET created == create_channel(req[r].channel,
                          get_user(req[r].api_key, req[r].sess), OWNER)
       IN /\ channels' = created.channels
          /\ cmembers' = created.cmembers
          /\ Finish(r, HTTP_201_CREATED)
    /\ UNCHANGED <<session, github, packages, pmembers, apikeys, versions,
                   files, req, last>>

\* line 201: dao.create_channel(new_channel, user_id, authorization.OWNER)
post_channel_create(r) ==
    /\ pc[r] = "create_channel"
    /\ LET created == create_channel(req[r].channel,
                          get_user(req[r].api_key, req[r].sess), OWNER)
       IN /\ channels' = created.channels
          /\ cmembers' = created.cmembers
          /\ Finish(r, created.status)
    /\ UNCHANGED <<session, github, packages, pmembers, apikeys, versions,
                   files, req, last>>

post_package_begin_any_channel(r, c, name, api_key) ==
    /\ pc[r] = "idle"
    /\ req' = [req EXCEPT ![r] = [NoRequest EXCEPT !.op = "post_package",
                   !.api_key = api_key, !.sess = session, !.channel = c,
                   !.package = name]]
    /\ IF assert_user(api_key, session) # 0
       THEN Finish(r, assert_user(api_key, session))
       ELSE IF get_package(c, name)
       THEN Finish(r, HTTP_409_CONFLICT)
       ELSE /\ pc' = [pc EXCEPT ![r] = "create_package"]
            /\ resp' = [resp EXCEPT ![r] = 0]
    /\ UNCHANGED <<session, github, channels, packages, cmembers, pmembers,
                   apikeys, versions, files, last>>

\* lines 62-70 (the channel dependency), then lines 228-233
post_package_begin(r, c, name, api_key) ==
    /\ pc[r] = "idle"
    /\ req' = [req EXCEPT ![r] = [NoRequest EXCEPT !.op = "post_package",
                   !.api_key = api_key, !.sess = session, !.channel = c,
                   !.package = name]]
    /\ IF ~get_channel(c)
       THEN Finish(r, HTTP_404_NOT_FOUND)
       ELSE IF assert_user(api_key, session) # 0
       THEN Finish(r, assert_user(api_key, session))
       ELSE IF get_package(c, name)
       THEN Finish(r, HTTP_409_CONFLICT)
       ELSE /\ pc' = [pc EXCEPT ![r] = "create_package"]
            /\ resp' = [resp EXCEPT ![r] = 0]
    /\ UNCHANGED <<session, github, channels, packages, cmembers, pmembers,
                   apikeys, versions, files, last>>

post_package_create_as_member(r) ==
    /\ pc[r] = "create_package"
    /\ LET created == create_package(req[r].channel, req[r].package,
                          get_user(req[r].api_key, req[r].sess), MEMBER)
       IN /\ packages' = created.packages
          /\ pmembers' = created.pmembers
          /\ Finish(r, created.status)
    /\ UNCHANGED <<session, github, channels, cmembers, apikeys, versions,
                   files, req, last>>

\* line 235: dao.create_package(channel.name, new_package, user_id, OWNER)
post_package_create(r) ==
    /\ pc[r] = "create_package"
    /\ LET created == create_package(req[r].channel, req[r].package,
                          get_user(req[r].api_key, req[r].sess), OWNER)
       IN /\ packages' = created.packages
          /\ pmembers' = created.pmembers
          /\ Finish(r, created.status)
    /\ UNCHANGED <<session, github, channels, cmembers, apikeys, versions,
                   files, req, last>>

\* ------------------------------------------ member endpoints (main.py)

post_channel_member_unchecked(c, username, role, api_key) ==
    LET status == IF ~get_channel(c) THEN HTTP_404_NOT_FOUND
                  ELSE IF get_channel_member(c, username)
                  THEN HTTP_409_CONFLICT
                  ELSE HTTP_201_CREATED
    IN
    /\ Cardinality(cmembers) + Cardinality(pmembers) < MaxMembers
    /\ cmembers' = IF status = HTTP_201_CREATED
                   THEN create_channel_member(c, username, role)
                   ELSE cmembers
    /\ last' = [Response("post_channel_member", username, api_key, status,
                         <<>>) EXCEPT !.channel = c, !.role = role]
    /\ UNCHANGED <<session, github, channels, packages, pmembers, apikeys,
                   versions, files, pc, req, resp>>

\* lines 62-70 (the channel dependency), then lines 262-270
post_channel_member(c, username, role, api_key) ==
    LET denied == assert_add_channel_member(api_key, session, c, role)
        status == IF ~get_channel(c) THEN HTTP_404_NOT_FOUND
                  ELSE IF denied # 0 THEN denied
                  ELSE IF get_channel_member(c, username)
                  THEN HTTP_409_CONFLICT
                  ELSE HTTP_201_CREATED
    IN
    /\ Cardinality(cmembers) + Cardinality(pmembers) < MaxMembers
    /\ cmembers' = IF status = HTTP_201_CREATED
                   THEN create_channel_member(c, username, role)
                   ELSE cmembers
    /\ last' = [Response("post_channel_member", username, api_key, status,
                         <<>>) EXCEPT !.channel = c, !.role = role]
    /\ UNCHANGED <<session, github, channels, packages, pmembers, apikeys,
                   versions, files, pc, req, resp>>

\* lines 62-84 (the channel and package dependencies), then lines 298-306
post_package_member(c, p, username, role, api_key) ==
    LET denied == assert_add_package_member(api_key, session, c, p, role)
        status == IF ~get_channel(c) \/ ~get_package(c, p)
                  THEN HTTP_404_NOT_FOUND
                  ELSE IF denied # 0 THEN denied
                  ELSE IF get_package_member(c, p, username)
                  THEN HTTP_409_CONFLICT
                  ELSE HTTP_201_CREATED
    IN
    /\ Cardinality(cmembers) + Cardinality(pmembers) < MaxMembers
    /\ pmembers' = IF status = HTTP_201_CREATED
                   THEN create_package_member(c, p, username, role)
                   ELSE pmembers
    /\ last' = [Response("post_package_member", username, api_key, status,
                         <<>>) EXCEPT !.channel = c, !.package = p,
                                      !.role = role]
    /\ UNCHANGED <<session, github, channels, packages, cmembers, apikeys,
                   versions, files, pc, req, resp>>

\* -------------------------------------------------- file upload (main.py)

\* file names are sequences of characters
FnA1 == <<"a", "-", "1">>
FnA2 == <<"a", "-", "2">>
FnB1 == <<"b", "-", "1">>

\* the embedded info/index.json documents
InfoA1 == [name |-> <<"a">>, subdir |-> "linux-64", version |-> "1",
           build_number |-> 0, build |-> "h0", depends |-> "x"]
InfoA1y == [InfoA1 EXCEPT !.depends = "y"]
InfoA2 == [InfoA1 EXCEPT !.version = "2"]
InfoB1 == [InfoA1 EXCEPT !.name = <<"b">>]

\* archives: what opening them yields, their metadata and their other bytes
ArA1 == [kind |-> "ok", info |-> InfoA1, payload |-> "p1"]
ArA1p == [kind |-> "ok", info |-> InfoA1, payload |-> "p2"]
ArA1y == [kind |-> "ok", info |-> InfoA1y, payload |-> "p1"]
ArA2 == [kind |-> "ok", info |-> InfoA2, payload |-> "p1"]
ArB1 == [kind |-> "ok", info |-> InfoB1, payload |-> "p1"]
ArNotTar == [kind |-> "not_tar", info |-> InfoA1, payload |-> "p1"]
ArNoIndex == [kind |-> "no_index", info |-> InfoA1, payload |-> "p1"]
ArBadJson == [kind |-> "bad_json", info |-> InfoA1, payload |-> "p1"]

\* the files a client may upload
Uploads ==
    {[filename |-> FnA1, archive |-> ArA1],
     [filename |-> FnA1, archive |-> ArA1p],
     [filename |-> FnA1, archive |-> ArA1y],
     [filename |-> FnA1, archive |-> ArA2],
     [filename |-> FnA2, archive |-> ArA1],
     [filename |-> FnB1, archive |-> ArA1],
     [filename |-> FnA1, archive |-> ArB1],
     [filename |-> FnB1, archive |-> ArNotTar]}

\* the files a client may put in a batch
BatchFiles ==
    {[filename |-> FnA1, archive |-> ArA1],
     [filename |-> FnA1, archive |-> ArA1p],
     [filename |-> FnA2, archive |-> ArA2],
     [filename |-> FnB1, archive |-> ArA1],
     [filename |-> FnA2, archive |-> ArNotTar],
     [filename |-> FnA2, archive |-> ArNoIndex],
     [filename |-> FnA2, archive |-> ArBadJson]}

\* files: List[UploadFile], one file or more
Batches == UNION {[1..n -> BatchFiles] : n \in 1..MaxFiles}

\* file.filename.split('-')[0]
FirstPart(filename) ==
    LET dashes == {k \in 1..Len(filename) : filename[k] = "-"} IN
    IF dashes = {} THEN filename
    ELSE SubSeq(filename, 1,
                (CHOOSE k \in dashes : \A j \in dashes : k <= j) - 1)

\* json.dumps(info)
JsonDumps(info) == <<"json", info>>

\* f'{channel_dir}/{info["subdir"]}/' + file.filename
Path(c, info, filename) == <<c, info.subdir, filename>>

\* the file of the batch the request in slot r is processing
CurrentFile(r) == req[r].files[req[r].i]

CurrentPath(r) ==
    Path(req[r].channel, CurrentFile(r).archive.info, CurrentFile(r).filename)

\* lines 62-84 (the channel and package dependencies), then line 373
post_file_begin(r, c, p, batch, api_key) ==
    /\ pc[r] = "idle"
    /\ req' = [req EXCEPT ![r] = [NoRequest EXCEPT !.op = "post_file",
                   !.api_key = api_key, !.sess = session, !.channel = c,
                   !.package = p, !.files = batch, !.i = 1]]
    /\ IF ~get_channel(c) \/ ~get_package(c, p)
       THEN Finish(r, HTTP_404_NOT_FOUND)
       ELSE IF assert_upload_file(api_key, session, c, p) # 0
       THEN Finish(r, assert_upload_file(api_key, session, c, p))
       ELSE /\ pc' = [pc EXCEPT ![r] = "parse"]
            /\ resp' = [resp EXCEPT ![r] = 0]
    /\ UNCHANGED <<session, github, channels, packages, cmembers, pmembers,
                   apikeys, versions, files, last>>

\* lines 377-382: read the metadata, compare the names; an archive that
\* cannot be read raises out of the handler
post_file_parse(r) ==
    /\ pc[r] = "parse"
    /\ IF CurrentFile(r).archive.kind # "ok"
       THEN Finish(r, HTTP_500_INTERNAL_SERVER_ERROR)
       ELSE IF \/ FirstPart(CurrentFile(r).filename) # req[r].package
               \/ CurrentFile(r).archive.info.name # req[r].package
       THEN Finish(r, HTTP_400_BAD_REQUEST)
       ELSE /\ pc' = [pc EXCEPT ![r] = "open"]
            /\ resp' = resp
    /\ UNCHANGED <<session, github, channels, packages, cmembers, pmembers,
                   apikeys, versions, files, req, last>>

\* lines 384-388: makedirs, then open(path, 'wb') creates or truncates
post_file_open(r) ==
    /\ pc[r] = "open"
    /\ files' = set(files, CurrentPath(r),
                    [complete |-> FALSE, archive |-> CurrentFile(r).archive])
    /\ pc' = [pc EXCEPT ![r] = "copy"]
    /\ UNCHANGED <<session, github, channels, packages, cmembers, pmembers,
                   apikeys, versions, req, resp, last>>

\* line 389: shutil.copyfileobj and the close of the destination
post_file_copy(r) ==
    /\ pc[r] = "copy"
    /\ files' = set(files, CurrentPath(r),
                    [complete |-> TRUE, archive |-> CurrentFile(r).archive])
    /\ pc' = [pc EXCEPT ![r] = "record"]
    /\ UNCHANGED <<session, github, channels, packages, cmembers, pmembers,
                   apikeys, versions, req, resp, last>>

\* the row dao.create_version is given for the current file
VersionRow(r) ==
    LET info == CurrentFile(r).archive.info IN
    [channel |-> req[r].channel, package |-> req[r].package,
     platform |-> info.subdir, version |-> info.version,
     build_number |-> info.build_number, build_string |-> info.build,
     filename |-> CurrentFile(r).filename, info |-> JsonDumps(info),
     uploader_id |-> get_user(req[r].api_key, req[r].sess)]

post_file_record_ignores_conflict(r) ==
    /\ pc[r] = "record"
    /\ versions' = create_version(VersionRow(r)).versions
    /\ pc' = [pc EXCEPT ![r] = "index"]
    /\ UNCHANGED <<session, github, channels, packages, cmembers, pmembers,
                   apikeys, files, req, resp, last>>

\* lines 391-401: assert_user, dao.create_version, then the next file
post_file_record(r) ==
    /\ pc[r] = "record"
    /\ IF assert_user(req[r].api_key, req[r].sess) # 0
       THEN /\ Finish(r, assert_user(req[r].api_key, req[r].sess))
            /\ UNCHANGED <<versions, req>>
       ELSE LET created == create_version(VersionRow(r)) IN
            /\ versions' = created.versions
            /\ IF created.status # HTTP_201_CREATED
               THEN Finish(r, created.status) /\ req' = req
               ELSE IF req[r].i < Len(req[r].files)
               THEN /\ req' = [req EXCEPT ![r].i = @ + 1]
                    /\ pc' = [pc EXCEPT ![r] = "parse"]
                    /\ resp' = resp
               ELSE /\ req' = req
                    /\ pc' = [pc EXCEPT ![r] = "index"]
                    /\ resp' = resp
    /\ UNCHANGED <<session, github, channels, packages, cmembers, pmembers,
                   apikeys, files, last>>

\* line 403: subprocess.run(['conda', 'index', channel_dir]), then 201
post_file_index(r) ==
    /\ pc[r] = "index"
    /\ req' = [req EXCEPT ![r].indexed = @ + 1]
    /\ Finish(r, HTTP_201_CREATED)
    /\ UNCHANGED <<session, github, channels, packages, cmembers, pmembers,
                   apikeys, versions, files, last>>

\* ----------------------------------------------- API keys (main.py)

ApiKeyRoleInputs ==
    {{}, {<<"c1", NoPackage, OWNER>>}, {<<"c1", <<"a">>, MAINTAINER>>}}

\* secrets.token_urlsafe(32): a key no stored key has
FreshKey == CHOOSE k \in Keys : \A row \in apikeys : row.key # k

post_api_key_creates_first(roles, api_key) ==
    LET denied_roles == assert_create_api_key_roles(api_key, session, roles)
        denied_user == assert_user(api_key, session)
        status == IF denied_roles # 0 THEN denied_roles
                  ELSE IF denied_user # 0 THEN denied_user
                  ELSE HTTP_201_CREATED
    IN
    /\ Cardinality(apikeys) < MaxKeys
    /\ apikeys' = create_api_key(get_user(api_key, session), roles, FreshKey)
    /\ last' = Response("post_api_key", None, api_key, status, <<>>)
    /\ UNCHANGED <<session, github, channels, packages, cmembers, pmembers,
                   versions, files, pc, req, resp>>

post_api_key(roles, api_key) ==
    LET denied_roles == assert_create_api_key_roles(api_key, session, roles)
        denied_user == assert_user(api_key, session)
        status == IF denied_roles # 0 THEN denied_roles
                  ELSE IF denied_user # 0 THEN denied_user
                  ELSE HTTP_201_CREATED
    IN
    /\ Cardinality(apikeys) < MaxKeys
    /\ apikeys' = IF status = HTTP_201_CREATED
                  THEN create_api_key(get_user(api_key, session), roles,
                                      FreshKey)
                  ELSE apikeys
    /\ last' = Response("post_api_key", None, api_key, status,
                         <<>>)
    /\ UNCHANGED <<session, github, channels, packages, cmembers, pmembers,
                   versions, files, pc, req, resp>>

\* ------------------------------------------------------- initial states

EmptySession == [k \in {} |-> None]

InitEmpty ==
    /\ session = EmptySession
    /\ github = [t \in Tokens |-> "valid"]
    /\ channels = [c \in ChannelNames |-> 0]
    /\ packages = [cp \in ChannelNames \X PackageNames |-> 0]
    /\ cmembers = {}
    /\ pmembers = {}
    /\ apikeys = {}
    /\ versions = <<>>
    /\ files = [x \in {} |-> None]
    /\ pc = [r \in Req |-> "idle"]
    /\ req = [r \in Req |-> NoRequest]
    /\ resp = [r \in Req |-> 0]
    /\ last = NoResponse

\* ------------------------------------------- two requests create a channel

\* each slot serves one POST /channels request; the session may log in and out
NextChannels ==
    \/ \E u \in UsernameInputs : dummy_login(u)
    \/ route_logout
    \/ \E r \in Req, name \in ChannelNames :
           resp[r] = 0 /\ post_channel_begin(r, name, None)
    \/ \E r \in Req : post_channel_create(r)

SpecChannels == InitEmpty /\ [][NextChannels]_vars

\* channel c1 and its package a exist, created by alice; bob was added to the
\* channel as a maintainer
InitSeeded ==
    /\ session = EmptySession
    /\ github = [t \in Tokens |-> "valid"]
    /\ channels = [c \in ChannelNames |-> IF c = "c1" THEN 1 ELSE 0]
    /\ packages = [cp \in ChannelNames \X PackageNames |->
                      IF cp = <<"c1", <<"a">>>> THEN 1 ELSE 0]
    /\ cmembers = {<<"c1", "A", OWNER>>, <<"c1", "B", MAINTAINER>>}
    /\ pmembers = {<<"c1", <<"a">>, "A", OWNER>>}
    /\ apikeys = {}
    /\ versions = <<>>
    /\ files = [x \in {} |-> None]
    /\ pc = [r \in Req |-> "idle"]
    /\ req = [r \in Req |-> NoRequest]
    /\ resp = [r \in Req |-> 0]
    /\ last = NoResponse

\* -------------------------------------------------- the session lifecycle

NextSession ==
    \/ \E u \in UsernameInputs : dummy_login(u)
    \/ \E u \in Usernames, t \in Tokens : github_login(u, t)
    \/ route_logout
    \/ \E k \in Keys \cup {None} : me(k)
    \/ \E t \in Tokens, a \in ProviderAnswers : provider_event(t, a)
    \/ \E roles \in ApiKeyRoleInputs : post_api_key(roles, None)

SpecSession == InitSeeded /\ [][NextSession]_vars

\* the user the provider issued each token to
TokenOwner == [t1 |-> "alice", t2 |-> "bob"]

\* logins of either kind, logouts and profile requests in any order, while
\* the provider revokes and restores tokens
NextLogin ==
    \/ \E u \in UsernameInputs : dummy_login(u)
    \/ \E t \in Tokens : github_login(TokenOwner[t], t)
    \/ route_logout
    \/ me(None)
    \/ \E t \in Tokens, a \in ProviderAnswers : provider_event(t, a)

SpecLogin == InitSeeded /\ [][NextLogin]_vars

\* ------------------------------------------------ two upload requests

\* each slot serves one upload of one file; the session may log in and out
NextUploads ==
    \/ \E u \in UsernameInputs : dummy_login(u)
    \/ route_logout
    \/ \E r \in Req, c \in ChannelNames, p \in PackageNames, f \in Uploads :
           resp[r] = 0 /\ post_file_begin(r, c, p, <<f>>, None)
    \/ \E r \in Req : post_file_parse(r)
    \/ \E r \in Req : post_file_open(r)
    \/ \E r \in Req : post_file_copy(r)
    \/ \E r \in Req : post_file_record(r)
    \/ \E r \in Req : post_file_index(r)

SpecUploads == InitSeeded /\ [][NextUploads]_vars

\* the same, with a request starting only when no other is in flight
NextReupload ==
    \/ \E u \in UsernameInputs : dummy_login(u)
    \/ route_logout
    \/ \E r \in Req, c \in ChannelNames, p \in PackageNames, f \in Uploads :
           /\ resp[r] = 0
           /\ \A other \in Req : pc[other] = "idle"
           /\ post_file_begin(r, c, p, <<f>>, None)
    \/ \E r \in Req : post_file_parse(r)
    \/ \E r \in Req : post_file_open(r)
    \/ \E r \in Req : post_file_copy(r)
    \/ \E r \in Req : post_file_record(r)
    \/ \E r \in Req : post_file_index(r)

SpecReupload == InitSeeded /\ [][NextReupload]_vars

\* ------------------------------------------------- the server as a whole

\* the files uploaded in the runs of the whole server
GateUploads ==
    {[filename |-> FnA1, archive |-> ArA1],
     [filename |-> FnB1, archive |-> ArA1]}

\* requests of every kind, in any number and order, on channel c1 and its
\* package a; the session logs in and out between them, and uploads may be
\* sent with an API key instead
Next ==
    \/ \E u \in Usernames : dummy_login(u)
    \/ route_logout
    \/ post_channel_begin("r1", "c1", None)
    \/ post_channel_create("r1")
    \/ post_package_begin("r1", "c1", <<"a">>, None)
    \/ post_package_create("r1")
    \/ \E role \in {MAINTAINER, OWNER} :
           post_channel_member("c1", "bob", role, None)
    \/ post_package_member("c1", <<"a">>, "bob", MEMBER, None)
    \/ \E roles \in {{}, {<<"c1", NoPackage, OWNER>>}} :
           post_api_key(roles, None)
    \/ \E f \in GateUploads, k \in {"k1", None} :
           post_file_begin("r1", "c1", <<"a">>, <<f>>, k)
    \/ post_file_parse("r1")
    \/ post_file_open("r1")
    \/ post_file_copy("r1")
    \/ post_file_record("r1")
    \/ post_file_index("r1")

Spec == InitEmpty /\ [][Next]_vars

\* ------------------------------------------- channels and their packages

\* requests that create channel c1 and packages, in any number and order,
\* two of them in flight at a time
NextPackages ==
    \/ \E u \in Usernames : dummy_login(u)
    \/ route_logout
    \/ \E r \in Req : post_channel_begin(r, "c1", None)
    \/ \E r \in Req : post_channel_create(r)
    \/ \E r \in Req, c \in ChannelNames, name \in PackageNames :
           post_package_begin(r, c, name, None)
    \/ \E r \in Req : post_package_create(r)

SpecPackages == InitEmpty /\ [][NextPackages]_vars

\* ------------------------------------------------------------- members

\* requests that add members to channel c1 and its packages, sent with the
\* session or with an API key
NextMembers ==
    \/ \E u \in Usernames : dummy_login(u)
    \/ route_logout
    \/ \E c \in ChannelNames, u \in Usernames, role \in Roles,
          k \in {"k1", None} : post_channel_member(c, u, role, k)
    \/ \E c \in ChannelNames, p \in PackageNames, u \in Usernames,
          role \in Roles, k \in {"k1", None} :
           post_package_member(c, p, u, role, k)
    \/ \E roles \in ApiKeyRoleInputs : post_api_key(roles, None)

SpecMembers == InitSeeded /\ [][NextMembers]_vars

\* ------------------------------------------------- one upload of a batch

\* one request uploads a batch of files to a package of channel c1; the
\* session may log in and out
NextBatch ==
    \/ \E u \in Usernames : dummy_login(u)
    \/ route_logout
    \/ \E p \in PackageNames, batch \in Batches :
           resp["r1"] = 0 /\ post_file_begin("r1", "c1", p, batch, None)
    \/ post_file_parse("r1")
    \/ post_file_open("r1")
    \/ post_file_copy("r1")
    \/ post_file_record("r1")
    \/ post_file_index("r1")

SpecBatch == InitSeeded /\ [][NextBatch]_vars

\* the handler is synchronous code: once the request is in, its steps run
\* until it returns or raises
BatchSteps ==
    \/ post_file_parse("r1")
    \/ post_file_open("r1")
    \/ post_file_copy("r1")
    \/ post_file_record("r1")
    \/ post_file_index("r1")

SpecBatchFair == SpecBatch /\ WF_vars(BatchSteps)

\* ------------------------------------- one archive, two channels

\* alice has created channels c1 and c2 and a package a in each
InitTwoChannels ==
    /\ session = EmptySession
    /\ github = [t \in Tokens |-> "valid"]
    /\ channels = [c \in ChannelNames |-> 1]
    /\ packages = [cp \in ChannelNames \X PackageNames |->
                      IF cp[2] = <<"a">> THEN 1 ELSE 0]
    /\ cmembers = {<<c, "A", OWNER>> : c \in ChannelNames}
    /\ pmembers = {<<c, <<"a">>, "A", OWNER>> : c \in ChannelNames}
    /\ apikeys = {}
    /\ versions = <<>>
    /\ files = [x \in {} |-> None]
    /\ pc = [r \in Req |-> "idle"]
    /\ req = [r \in Req |-> NoRequest]
    /\ resp = [r \in Req |-> 0]
    /\ last = NoResponse

\* the files uploaded to the two channels: one archive under two names, and
\* another archive
MirrorUploads ==
    {[filename |-> FnA1, archive |-> ArA1],
     [filename |-> FnA2, archive |-> ArA1],
     [filename |-> FnA2, archive |-> ArA2]}

\* each slot serves one upload of one file to package a of either channel
NextTwoChannels ==
    \/ \E u \in Usernames : dummy_login(u)
    \/ route_logout
    \/ \E r \in Req, c \in ChannelNames, f \in MirrorUploads :
           resp[r] = 0 /\ post_file_begin(r, c, <<"a">>, <<f>>, None)
    \/ \E r \in Req : post_file_parse(r)
    \/ \E r \in Req : post_file_open(r)
    \/ \E r \in Req : post_file_copy(r)
    \/ \E r \in Req : post_file_record(r)
    \/ \E r \in Req : post_file_index(r)

SpecTwoChannels == InitTwoChannels /\ [][NextTwoChannels]_vars

\* the request in slot r has ended
Done(r) == pc[r] = "idle" /\ resp[r] # 0

\* the caller of the request in slot r is authenticated
Authenticated(r) == assert_user(req[r].api_key, req[r].sess) = 0

\* C1: when two POST /channels requests from authenticated callers name the
\* same channel, then however their steps interleave, once both have ended one
\* has 201 and the other 409, and exactly one channel row has that name; at no
\* moment is there more than one row of a name.
C1_OneChannelCreated ==
    /\ \A n \in ChannelNames : channels[n] <= 1
    /\ \A r1, r2 \in Req :
        (/\ r1 # r2
         /\ Done(r1) /\ Done(r2)
         /\ req[r1].op = "post_channel" /\ req[r2].op = "post_channel"
         /\ req[r1].channel = req[r2].channel
         /\ Authenticated(r1) /\ Authenticated(r2))
        => /\ {resp[r1], resp[r2]} = {HTTP_201_CREATED, HTTP_409_CONFLICT}
           /\ channels[req[r1].channel] = 1

\* both requests passed the existence lookup before either inserted: one has
\* inserted and ended, the other is still about to insert
C1_Witness ==
    \E r1, r2 \in Req :
        /\ r1 # r2
        /\ Done(r1) /\ resp[r1] = HTTP_201_CREATED
        /\ req[r1].op = "post_channel"
        /\ pc[r2] = "create_channel"
        /\ req[r1].channel = req[r2].channel
        /\ channels[req[r2].channel] = 1

\* the session holds none of the three fields
LoggedOut(s) == DOMAIN s \cap SessionKeys = {}

\* C5: logout leaves the session without user_id, identity_provider and
\* token, a second logout would change nothing, and GET /me sent with a
\* logged-out session and no API-key header ends with 401 and leaves the
\* session logged out.
C5_LogoutThenMeUnauthenticated ==
    /\ last.op = "logout" =>
           /\ LoggedOut(session)
           /\ logout(session) = session
    /\ (last.op = "me" /\ last.api_key = None /\ LoggedOut(last.sess)) =>
           /\ last.status = HTTP_401_UNAUTHORIZED
           /\ LoggedOut(session)

\* a user had logged in and created an API key; after the logout GET /me
\* without the key header was refused
C5_Witness ==
    /\ last.op = "me" /\ last.api_key = None
    /\ LoggedOut(last.sess)
    /\ last.status = HTTP_401_UNAUTHORIZED
    /\ apikeys # {}

\* the step is a GET /me whose session records the external provider
MeWithProvider ==
    /\ last' # last
    /\ last'.op = "me"
    /\ get(session, "identity_provider") = "github"

\* C6: a GET /me whose session records the external identity provider ends
\* with 401 and a session without its three fields unless the provider
\* reports the stored token valid; the profile is returned only when it does.
C6_RevocationGate ==
    [][MeWithProvider =>
        /\ (get(session, "token") \notin Tokens
            \/ github[get(session, "token")] # "valid") =>
                /\ last'.status = HTTP_401_UNAUTHORIZED
                /\ LoggedOut(session')
        /\ last'.status = HTTP_200_OK =>
                /\ get(session, "token") \in Tokens
                /\ github[get(session, "token")] = "valid"]_vars

\* GET /me with a revoked provider token was refused and the session cleared
C6_Witness ==
    /\ last.op = "me"
    /\ get(last.sess, "identity_provider") = "github"
    /\ github[get(last.sess, "token")] = "revoked"
    /\ last.status = HTTP_401_UNAUTHORIZED
    /\ LoggedOut(session)

Authorized(r) ==
    assert_upload_file(req[r].api_key, req[r].sess, req[r].channel,
                       req[r].package) = 0

\* slot r holds an upload (in flight or ended) that passed the gate
Upload(r) ==
    /\ req[r].op = "post_file"
    /\ get_channel(req[r].channel)
    /\ get_package(req[r].channel, req[r].package)
    /\ Authorized(r)

\* the file of the upload in slot r is a readable archive named for the package
ValidFile(r) ==
    /\ CurrentFile(r).archive.kind = "ok"
    /\ FirstPart(CurrentFile(r).filename) = req[r].package
    /\ CurrentFile(r).archive.info.name = req[r].package

RowsWithKey(key) == {k \in DOMAIN versions : VersionKey(versions[k]) = key}

\* C2: when two authorized uploads to the same package carry archives with
\* the same version key, then however their steps interleave, once both have
\* ended one has recorded the row and has 201 and the other has 409; one row
\* has that key, and it is the row of the request that succeeded.
C2_OneUploadRecorded ==
    \A r1, r2 \in Req :
        (/\ r1 # r2
         /\ Upload(r1) /\ Upload(r2)
         /\ ValidFile(r1) /\ ValidFile(r2)
         /\ VersionKey(VersionRow(r1)) = VersionKey(VersionRow(r2))
         /\ Done(r1) /\ Done(r2))
        => /\ {resp[r1], resp[r2]} = {HTTP_201_CREATED, HTTP_409_CONFLICT}
           /\ Cardinality(RowsWithKey(VersionKey(VersionRow(r1)))) = 1
           /\ \A r \in {r1, r2} :
                  resp[r] = HTTP_201_CREATED =>
                      \E k \in DOMAIN versions : versions[k] = VersionRow(r)

\* one upload was refused as a duplicate while the upload that recorded the
\* row was still in flight
C2_Witness ==
    \E r1, r2 \in Req :
        /\ r1 # r2
        /\ Upload(r1) /\ Upload(r2)
        /\ ValidFile(r1) /\ ValidFile(r2)
        /\ VersionKey(VersionRow(r1)) = VersionKey(VersionRow(r2))
        /\ Done(r1) /\ resp[r1] = HTTP_409_CONFLICT
        /\ pc[r2] = "index"

\* the archive stored where the upload in slot r put its file
Stored(r) ==
    IF CurrentPath(r) \in DOMAIN files THEN files[CurrentPath(r)]
    ELSE [complete |-> FALSE, archive |-> ArNotTar]

\* C3: an authorized upload whose version key is that of a row an earlier
\* upload recorded ends with 409, and afterwards the earlier row and the
\* archive bytes the earlier upload stored are what they were.
C3_ReuploadLeavesFirstUnchanged ==
    \A r1, r2 \in Req :
        (/\ r1 # r2
         /\ Upload(r1) /\ Upload(r2)
         /\ ValidFile(r1) /\ ValidFile(r2)
         /\ VersionKey(VersionRow(r1)) = VersionKey(VersionRow(r2))
         /\ Done(r1) /\ resp[r1] = HTTP_201_CREATED
         /\ Done(r2))
        => /\ resp[r2] = HTTP_409_CONFLICT
           /\ versions = <<VersionRow(r1)>>
           /\ Stored(r1) =
                  [complete |-> TRUE, archive |-> CurrentFile(r1).archive]

\* C4: an authorized upload of a file whose name before the first '-' is not
\* the package name, or whose metadata name is not the package name, ends
\* with 400 and has recorded no row and written no file (no other request
\* has run, so every row and every file would be its own).
C4_MismatchRejected ==
    \A r \in Req :
        (/\ Upload(r)
         /\ Done(r)
         /\ \A other \in Req \ {r} : req[other].op = "none"
         /\ \/ FirstPart(CurrentFile(r).filename) # req[r].package
            \/ /\ CurrentFile(r).archive.kind = "ok"
               /\ CurrentFile(r).archive.info.name # req[r].package)
        => /\ resp[r] = HTTP_400_BAD_REQUEST
           /\ versions = <<>>
           /\ files = [x \in {} |-> None]

\* the step starts (and, when refused, ends) a POST /channels/{c}/packages
\* request in slot r
BeginsPackage(r) ==
    /\ pc[r] = "idle"
    /\ req'[r].op = "post_package"
    /\ <<pc'[r], req'[r], resp'[r]>> # <<pc[r], req[r], resp[r]>>

\* the step ends the request in slot r with the status and changes no
\* persisted state
Refused(r, status) ==
    /\ pc'[r] = "idle"
    /\ resp'[r] = status
    /\ persisted' = persisted

\* C8 as stated: 404 when the channel does not exist, 409 when the package
\* exists (whoever calls); nothing is created in either case and no
\* (channel, package name) has more than one package.
C8_PackageCreateErrors ==
    [][\A r \in Req :
        /\ BeginsPackage(r) =>
            /\ ~get_channel(req'[r].channel) => Refused(r, HTTP_404_NOT_FOUND)
            /\ (get_channel(req'[r].channel)
                /\ get_package(req'[r].channel, req'[r].package)) =>
                    Refused(r, HTTP_409_CONFLICT)
        /\ (pc[r] = "create_package" /\ pc'[r] = "idle"
            /\ get_package(req[r].channel, req[r].package)) =>
                Refused(r, HTTP_409_CONFLICT)
        /\ \A cp \in DOMAIN packages : packages'[cp] <= 1]_vars

\* C8, amended: 404 when the channel does not exist; 409 when the channel and
\* the package exist and the caller is authenticated, also when the package
\* was created while the request was in flight; nothing is created in either
\* case and no (channel, package name) has more than one package.
C8_PackageCreateErrorsAuthenticated ==
    [][\A r \in Req :
        /\ BeginsPackage(r) =>
            /\ ~get_channel(req'[r].channel) => Refused(r, HTTP_404_NOT_FOUND)
            /\ (get_channel(req'[r].channel)
                /\ get_package(req'[r].channel, req'[r].package)
                /\ assert_user(req'[r].api_key, req'[r].sess) = 0) =>
                    Refused(r, HTTP_409_CONFLICT)
        /\ (pc[r] = "create_package" /\ pc'[r] = "idle"
            /\ get_package(req[r].channel, req[r].package)) =>
                Refused(r, HTTP_409_CONFLICT)
        /\ \A cp \in DOMAIN packages : packages'[cp] <= 1]_vars

\* one request was refused because the channel does not exist, the other
\* because the package exists; the package has one row
C8_Witness ==
    \E r1, r2 \in Req :
        /\ Done(r1) /\ req[r1].op = "post_package"
        /\ ~get_channel(req[r1].channel)
        /\ resp[r1] = HTTP_404_NOT_FOUND
        /\ Done(r2) /\ req[r2].op = "post_package"
        /\ resp[r2] = HTTP_409_CONFLICT
        /\ packages[<<req[r2].channel, req[r2].package>>] = 1

\* the highest rank the caller holds in channel c: at channel scope or at
\* the scope of any of its packages
HighestRole(api_key, sess, c) ==
    Max({EffectiveRole(api_key, sess, c, NoPackage)} \cup
        {EffectiveRole(api_key, sess, c, p) : p \in PackageNames})

\* the step is a request to add a member with role OWNER to a channel, or to
\* a package of a channel, in which the caller's highest role is MAINTAINER
MaintainerGrantsOwner ==
    /\ last' # last
    /\ last'.op \in {"post_channel_member", "post_package_member"}
    /\ last'.role = OWNER
    /\ get_channel(last'.channel)
    /\ last'.op = "post_package_member" =>
           get_package(last'.channel, last'.package)
    /\ HighestRole(last'.api_key, session, last'.channel) = Rank(MAINTAINER)

\* C9: a caller whose highest role in a channel is MAINTAINER is denied when
\* asking to add a member with role OWNER to the channel or to one of its
\* packages, and the request creates no ChannelMember or PackageMember row.
C9_MaintainerCannotGrantOwner ==
    [][MaintainerGrantsOwner =>
        /\ last'.status = HTTP_403_FORBIDDEN
        /\ cmembers' = cmembers
        /\ pmembers' = pmembers]_vars

\* bob, a maintainer of c1, asked to add an owner to package a of c1 and was
\* denied
C9_Witness ==
    /\ last.op = "post_package_member"
    /\ last.role = OWNER
    /\ last.channel = "c1" /\ last.package = <<"a">>
    /\ HighestRole(last.api_key, last.sess, "c1") = Rank(MAINTAINER)
    /\ last.status = HTTP_403_FORBIDDEN

\* the step ends the request in slot r
EndsRequest(r) ==
    /\ pc'[r] = "idle"
    /\ <<pc'[r], req'[r], resp'[r]>> # <<pc[r], req[r], resp[r]>>

Denied == {HTTP_401_UNAUTHORIZED, HTTP_403_FORBIDDEN}

\* C10: a mutating request that ends with 401 or 403 ends in its first step,
\* the one that holds its authorization assert, and that step changes no
\* persisted state; every step that changes persisted state belongs to a
\* request whose assert has returned successfully.
C10_GateBeforeEffect ==
    [][/\ \A r \in Req :
            (EndsRequest(r) /\ resp'[r] \in Denied) =>
                (pc[r] = "idle" /\ persisted' = persisted)
       /\ (last' # last /\ last'.status \in Denied) => persisted' = persisted
       /\ persisted' # persisted =>
            \/ \E r \in Req : pc[r] # "idle" /\ resp[r] = 0
            \/ last' # last /\ last'.status = HTTP_201_CREATED]_vars

\* an upload by a caller without the maintainer role was refused, the
\* package still has no version and no file, and an API key request had been
\* refused before it
C10_Witness ==
    /\ Done("r1") /\ req["r1"].op = "post_file"
    /\ resp["r1"] = HTTP_403_FORBIDDEN
    /\ versions = <<>>
    /\ DOMAIN files = {}
    /\ last.op = "post_api_key" /\ last.status = HTTP_403_FORBIDDEN
    /\ apikeys = {}

\* the row and the storage path of file j of the batch in slot r
RowOfFile(r, j) ==
    LET info == req[r].files[j].archive.info IN
    [channel |-> req[r].channel, package |-> req[r].package,
     platform |-> info.subdir, version |-> info.version,
     build_number |-> info.build_number, build_string |-> info.build,
     filename |-> req[r].files[j].filename, info |-> JsonDumps(info),
     uploader_id |-> get_user(req[r].api_key, req[r].sess)]

PathOfFile(r, j) ==
    Path(req[r].channel, req[r].files[j].archive.info,
         req[r].files[j].filename)

\* the upload in slot r passed the gate and ended with an error at file
\* req[r].i of its batch
FailedAtFile(r) ==
    /\ Upload(r)
    /\ Done(r)
    /\ resp[r] # HTTP_201_CREATED

\* what the batch's files 1..n stored at the path of file j: the archive of
\* the last of them with that path
StoredByFirst(r, n, j) ==
    LET same == {i \in 1..n : PathOfFile(r, i) = PathOfFile(r, j)}
        lastOne == CHOOSE i \in same : \A k \in same : k <= i
    IN [complete |-> TRUE, archive |-> req[r].files[lastOne].archive]

\* C11: when file N is the first of a batch to fail, the rows are those of
\* files 1..N-1 and no other, the stored files of files 1..N-1 are what they
\* were when file N-1 was recorded, and files N+1..k have stored nothing.
C11_BatchStopsAtFirstFailure ==
    \A r \in Req :
        FailedAtFile(r) =>
            LET N == req[r].i
                k == Len(req[r].files)
            IN /\ versions = [j \in 1..(N - 1) |-> RowOfFile(r, j)]
               /\ \A j \in 1..(N - 1) :
                      /\ PathOfFile(r, j) \in DOMAIN files
                      /\ files[PathOfFile(r, j)] = StoredByFirst(r, N - 1, j)
               /\ \A j \in (N + 1)..k :
                      PathOfFile(r, j) \notin {PathOfFile(r, i) : i \in 1..N}
                          => PathOfFile(r, j) \notin DOMAIN files

\* C12: every upload that passed the gate comes to an end having run the
\* index regeneration once, whether all its files were recorded or a file
\* aborted the batch; the regeneration never runs more than once.
C12_IndexedOnce ==
    /\ [](\A r \in Req : req[r].indexed <= 1)
    /\ \A r \in Req :
           (pc[r] = "parse") ~> (Done(r) /\ req[r].indexed = 1)

\* the statuses of a client error
ClientErrors == 400..499

\* C13: an upload that ends at a file which cannot be opened as a compressed
\* tar archive, has no info/index.json or holds invalid JSON there, ends with
\* a client error; that file has recorded no row and stored no file.
C13_UnreadableIsClientError ==
    \A r \in Req :
        (/\ Upload(r)
         /\ Done(r)
         /\ CurrentFile(r).archive.kind \in {"not_tar", "no_index", "bad_json"})
        => LET N == req[r].i IN
           /\ resp[r] \in ClientErrors
           /\ versions = [j \in 1..(N - 1) |-> RowOfFile(r, j)]
           /\ PathOfFile(r, N) \notin {PathOfFile(r, i) : i \in 1..(N - 1)}
                  => PathOfFile(r, N) \notin DOMAIN files

\* the step is the index regeneration of the upload in slot r
RegeneratesIndex(r) == pc[r] = "index" /\ pc'[r] = "idle"

\* C14: whenever an upload's index regeneration runs, every file under the
\* storage root of its channel is completely written, whatever other
\* uploads to the channel are in flight.
C14_IndexSeesCompleteFiles ==
    [][\A r \in Req :
        RegeneratesIndex(r) =>
            \A q \in DOMAIN files :
                q[1] = req[r].channel => files[q].complete]_vars

\* where under its channel's storage root the file of a row is stored
PathInRoot(row) == <<row.platform, row.filename>>

\* C15: any two recorded rows whose embedded metadata are equal have the
\* same filename and the same path under their channel's storage root.
C15_FilenameFromMetadata ==
    \A i, j \in DOMAIN versions :
        versions[i].info = versions[j].info =>
            /\ versions[i].filename = versions[j].filename
            /\ PathInRoot(versions[i]) = PathInRoot(versions[j])

\* the caller of the request in slot r
Caller(r) == get_user(req[r].api_key, req[r].sess)

\* C16: a channel creation that ended with 201 has left its caller as an
\* OWNER member of the channel, a package creation that ended with 201 has
\* left its caller as an OWNER member of the package, and in every state
\* every existing channel and every existing package has an OWNER.
C16_CreatorIsOwner ==
    /\ \A r \in Req :
           (Done(r) /\ resp[r] = HTTP_201_CREATED) =>
               /\ req[r].op = "post_channel" =>
                      <<req[r].channel, Caller(r), OWNER>> \in cmembers
               /\ req[r].op = "post_package" =>
                      <<req[r].channel, req[r].package, Caller(r), OWNER>>
                          \in pmembers
    /\ \A c \in ChannelNames :
           get_channel(c) => \E m \in cmembers : m[1] = c /\ m[3] = OWNER
    /\ \A c \in ChannelNames, p \in PackageNames :
           get_package(c, p) =>
               \E m \in pmembers : m[1] = c /\ m[2] = p /\ m[4] = OWNER

\* alice created channel c1 and bob then created a package in it: each is
\* the OWNER of what they created, and bob holds no role in the channel
C16_Witness ==
    \E r1, r2 \in Req :
        /\ Done(r1) /\ resp[r1] = HTTP_201_CREATED
        /\ req[r1].op = "post_channel" /\ Caller(r1) = "A"
        /\ Done(r2) /\ resp[r2] = HTTP_201_CREATED
        /\ req[r2].op = "post_package" /\ Caller(r2) = "B"
        /\ <<req[r1].channel, "A", OWNER>> \in cmembers
        /\ <<req[r2].channel, req[r2].package, "B", OWNER>> \in pmembers
        /\ UserRole("B", req[r2].channel, NoPackage) = 0

\* no request is in flight
Quiet == \A r \in Req : pc[r] = "idle"

\* the storage path of the file a row refers to
PathOfRow(row) == <<row.channel, row.platform, row.filename>>

\* C17: when no upload is in flight, every file in storage is the file of a
\* row: a row of its channel with its platform and its filename exists.
C17_StoredFileHasRow ==
    Quiet =>
        \A q \in DOMAIN files :
            \E k \in DOMAIN versions : PathOfRow(versions[k]) = q

\* C18: when every upload so far has succeeded and none is in flight, the
\* archive stored at the path of each row holds the metadata the row
\* recorded.
C18_StoredArchiveMatchesRow ==
    (/\ Quiet
     /\ \A r \in Req :
            req[r].op = "post_file" => resp[r] = HTTP_201_CREATED)
    => \A k \in DOMAIN versions :
           /\ PathOfRow(versions[k]) \in DOMAIN files
           /\ JsonDumps(files[PathOfRow(versions[k])].archive.info)
                  = versions[k].info

\* a token in session s is the token of the login of the session's user
TokenOfUser(s) ==
    "token" \in DOMAIN s =>
        /\ "user_id" \in DOMAIN s
        /\ get(s, "identity_provider") = "github"
        /\ s["user_id"] = UuidStr(UserTable[TokenOwner[s["token"]]])

\* the step is a dummy_login for an existing user
DummyLoginOfUser ==
    /\ last' # last
    /\ last'.op = "dummy_login"
    /\ last'.username \in Usernames

\* C19: dummy_login for an existing user leaves a session that holds that
\* user's id and the provider name 'dummy' and nothing else, whatever it
\* held before; no step leaves a session whose token is not the token of the
\* login of its user_id.
C19_LoginReplacesSession ==
    [][/\ DummyLoginOfUser =>
            session' = [user_id |-> UuidStr(UserTable[last'.username]),
                        identity_provider |-> "dummy"]
       /\ TokenOfUser(session')]_vars

\* bob logged in with dummy_login over a session that held alice's provider
\* login and her token
C19_Witness ==
    /\ last.op = "dummy_login" /\ last.username = "bob"
    /\ get(last.sess, "token") = "t1"
    /\ get(last.sess, "user_id") = UuidStr(UserTable["alice"])
    /\ get(session, "user_id") = UuidStr(UserTable["bob"])
    /\ "token" \notin DOMAIN session

====
